---- MODULE Spec2Model ----
(***************************************************************************)
(* A model of streamlit_app.py, the Alzheimer's pathway explorer.          *)
(*                                                                         *)
(* The script is run top to bottom once per user interaction (a "render    *)
(* pass").  The only state that outlives a pass is on disk: the cached     *)
(* pathway document hsa05010.xml and the exported pathway_network.html.    *)
(*                                                                         *)
(* Text is modelled as a sequence of one-character strings, so that        *)
(* lower-casing, substring search, split and strip are computed the way    *)
(* Python computes them.                                                   *)
(*                                                                         *)
(* Three specifications are given:                                         *)
(*   Spec        any sequence of render passes of the script as written;   *)
(*   SpecFilter  the filtering and styling code (lines 42-100) run on a    *)
(*               graph G drawn from a bounded set of pathway graphs;       *)
(*   SpecInfo    the body of one biomarker expander (lines 117-127) run on *)
(*               a record text drawn from a bounded set of texts.          *)
(***************************************************************************)
EXTENDS Integers, Sequences, FiniteSets, TLC

VARIABLES
    pc,             \* position of the script within the render pass
    selected,       \* selected_biomarkers, a list of strings
    cacheExists,    \* os.path.exists("hsa05010.xml")
    cacheContent,   \* the content of hsa05010.xml
    kgml_data,      \* the text fetched by this pass (line 28)
    pathway,        \* the parsed pathway (line 33)
    G,              \* the pathway graph (line 38)
    sub_nodes,      \* the matched node ids (lines 42 and 61)
    subgraph,       \* the graph handed to the renderer (lines 49-51, 68-70)
    subgraphIsG,    \* whether subgraph is the object G itself, not a copy
    net,            \* the PyVis network (lines 75-100)
    notices,        \* st.error / st.warning / st.success calls of this pass
    htmlFile,       \* the content of pathway_network.html
    htmlWrites,     \* how often this pass wrote pathway_network.html
    displayed,      \* what st.components.v1.html was given in this pass
    idx,            \* index of the biomarker the info loop is at
    panel,          \* the expanders written by the info loop of this pass
    lookups,        \* gene record requests made by this pass
    kegg_record,    \* SpecInfo: what the gene record request of line 119 does
    existedAtStart, \* history: the cache file existed when the pass began
    fetched,        \* history: "none", "ok" or "failed" pathway fetch of this pass
    parseFailed,    \* history: KGML_parser.read raised in this pass
    firstFetched    \* history: the text written by the first successful fetch

vars == <<pc, selected, cacheExists, cacheContent, kgml_data, pathway, G,
          sub_nodes, subgraph, subgraphIsG, net, notices, htmlFile,
          htmlWrites, displayed, idx, panel, lookups, kegg_record,
          existedAtStart, fetched, parseFailed, firstFetched>>

(***************************************************************************)
(* Bounds of the model.                                                    *)
(***************************************************************************)
\* how many of the ten biomarkers the selection control offers in the model
NumOptions == 3
\* the longest selection
MaxSel == 2
\* the most pieces a gene record text is made of
MaxPieces == 4
\* the most nodes and edges of a graph handed to the filter in SpecFilter
MaxNodes == 2
MaxEdges == 2

(***************************************************************************)
(* Text.                                                                   *)
(***************************************************************************)
\* the lower-case letter of every upper-case letter
LowerTable ==
    [A |-> "a", B |-> "b", C |-> "c", D |-> "d", E |-> "e", F |-> "f", G |-> "g",
     H |-> "h", I |-> "i", J |-> "j", K |-> "k", L |-> "l", M |-> "m", N |-> "n",
     O |-> "o", P |-> "p", Q |-> "q", R |-> "r", S |-> "s", T |-> "t", U |-> "u",
     V |-> "v", W |-> "w", X |-> "x", Y |-> "y", Z |-> "z"]

\* str.lower() on one character
LowerChar(c) == IF c \in DOMAIN LowerTable THEN LowerTable[c] ELSE c

\* str.lower()
Lower(s) == [i \in 1..Len(s) |-> LowerChar(s[i])]

\* Python's `sub in text`
Contains(text, sub) ==
    \E i \in 1..(Len(text) - Len(sub) + 1) :
        SubSeq(text, i, i + Len(sub) - 1) = sub

\* str.find: the least index at which sep occurs in s, 0 when it does not
Find(s, sep) ==
    IF Contains(s, sep)
    THEN CHOOSE i \in 1..(Len(s) - Len(sep) + 1) :
            /\ SubSeq(s, i, i + Len(sep) - 1) = sep
            /\ \A j \in 1..(i - 1) : SubSeq(s, j, j + Len(sep) - 1) # sep
    ELSE 0

\* str.split(sep): the pieces between the non-overlapping occurrences of sep,
\* scanned from the left
RECURSIVE Split(_, _)
Split(s, sep) ==
    LET i == Find(s, sep)
    IN  IF i = 0
        THEN <<s>>
        ELSE <<SubSeq(s, 1, i - 1)>> \o Split(SubSeq(s, i + Len(sep), Len(s)), sep)

Whitespace == {" ", "\n", "\t", "\r"}

\* str.strip()
RECURSIVE Strip(_)
Strip(s) ==
    IF s = <<>> THEN s
    ELSE IF s[1] \in Whitespace THEN Strip(Tail(s))
    ELSE IF s[Len(s)] \in Whitespace THEN Strip(SubSeq(s, 1, Len(s) - 1))
    ELSE s

(***************************************************************************)
(* The selection control (lines 14-21).                                    *)
(***************************************************************************)
biomarkers ==
    << <<"A","P","P">>,
       <<"B","A","C","E","1">>,
       <<"P","S","E","N","1">>,
       <<"M","A","P","T">>,
       <<"G","S","K","3","B">>,
       <<"A","P","O","E">>,
       <<"I","L","6">>,
       <<"T","N","F">>,
       <<"S","O","D","1">>,
       <<"C","Y","C","S">> >>

\* the options the model lets the user pick from: a prefix of the list
Options == SubSeq(biomarkers, 1, NumOptions)

\* what st.multiselect can return: the chosen options, each once, in the order
\* the user chose them
Selections ==
    LET picks == UNION {[1..n -> 1..NumOptions] : n \in 0..MaxSel}
        once  == {f \in picks : \A i, j \in DOMAIN f : i # j => f[i] # f[j]}
    IN  {[i \in DOMAIN f |-> Options[f[i]]] : f \in once}

(***************************************************************************)
(* The pathway document (lines 24-36).  The KGML text is modelled by what  *)
(* the parser makes of it: the entries and the relations of a well-formed  *)
(* document, and nothing of a malformed one.                               *)
(***************************************************************************)
DocExample ==
    [text |-> "kgml-example", wellFormed |-> TRUE,
     entries    |-> {[id |-> 1, name |-> <<"A","P","P">>, graphics |-> <<>>, type |-> "gene"],
                     [id |-> 2, name |-> <<"X">>, graphics |-> <<>>, type |-> "compound"]},
     relations  |-> {[entry1 |-> 1, entry2 |-> 2, relationType |-> "activation"]}]

DocMixed ==
    [text |-> "kgml-mixed", wellFormed |-> TRUE,
     entries    |-> {[id |-> 1, name |-> <<"h","s","a",":","2","3","6","2","1">>, graphics |-> <<"B","A","C","E","1">>, type |-> "gene"],
                     [id |-> 2, name |-> <<"p","a","t","h",":","h","s","a","0","4","2","1","0">>, graphics |-> <<"A","p","o","p","t","o","s","i","s">>, type |-> "map"]},
     relations  |-> {[entry1 |-> 1, entry2 |-> 2, relationType |-> "maplink"]}]

DocTruncated ==
    [text |-> "kgml-truncated", wellFormed |-> FALSE, entries |-> {}, relations |-> {}]

\* what REST.kegg_get("hsa05010", "kgml").read() may return
Documents == {DocExample, DocMixed, DocTruncated}

\* the content of a file that does not exist, of a variable not yet assigned
NoDocument == [text |-> "", wellFormed |-> FALSE, entries |-> {}, relations |-> {}]

NoPathway == [parsed |-> FALSE, entries |-> {}, relations |-> {}]

\* KGML_parser.read succeeds on a well-formed document only
Parses(doc) == doc.wellFormed

\* KGML_parser.read(open(xml_path))
KGMLRead(doc) ==
    [parsed |-> TRUE, entries |-> doc.entries, relations |-> doc.relations]

(***************************************************************************)
(* Graphs: nodes maps a node id to its attributes, edges is a set of       *)
(* <<from, to>> pairs.                                                     *)
(***************************************************************************)
NoGraph == [made |-> FALSE, nodes |-> <<>>, edges |-> {}]

\* nx.DiGraph()
DiGraph == [made |-> TRUE, nodes |-> <<>>, edges |-> {}]

\* mutant of InducedSubgraph: the edges of the whole graph are kept
InducedSubgraph_AllEdges(g, ns) ==
    [made  |-> TRUE,
     nodes |-> [n \in ns |-> g.nodes[n]],
     edges |-> g.edges]

\* G.subgraph(nodes).copy(): the node-induced subgraph
InducedSubgraph(g, ns) ==
    [made  |-> TRUE,
     nodes |-> [n \in ns |-> g.nodes[n]],
     edges |-> {e \in g.edges : e[1] \in ns /\ e[2] \in ns}]

\* mutant of NeedsFetch: the document is fetched in every pass
NeedsFetch_Always(exists) == TRUE

\* the condition of line 26
NeedsFetch(exists) == ~exists

\* dict.get(key, default)
Get(d, key, default) == IF key \in DOMAIN d THEN d[key] ELSE default

(***************************************************************************)
(* The two filtering blocks (lines 42-52 and 57-71).                       *)
(***************************************************************************)
\* the condition of line 44
MatchesSearchText(d, bios) ==
    \E i \in DOMAIN bios : Contains(Get(d, "search_text", <<>>), Lower(bios[i]))

\* mutant of matches_biomarker: the node text is not lower-cased
matches_biomarker_CaseSensitive(label, name, bios) ==
    LET text == label \o <<" ">> \o name
    IN  \E i \in DOMAIN bios : Contains(text, Lower(bios[i]))

\* matches_biomarker (lines 57-59)
matches_biomarker(label, name, bios) ==
    LET text == Lower(label \o <<" ">> \o name)
    IN  \E i \in DOMAIN bios : Contains(text, Lower(bios[i]))

Notice(kind, what, count) == [kind |-> kind, what |-> what, count |-> count]

(***************************************************************************)
(* The render adapter (lines 75-100).                                      *)
(***************************************************************************)
NoNet == [made |-> FALSE, nodes |-> <<>>, edges |-> {}]

\* Network(...).from_nx(subgraph): every node and every edge of the graph
FromNx(g) ==
    [made  |-> TRUE,
     nodes |-> [n \in DOMAIN g.nodes |->
                  [id |-> n, label |-> Get(g.nodes[n], "label", <<>>),
                   title |-> <<>>, color |-> "#97c2fc", size |-> 10]],
     edges |-> g.edges]

\* mutant of NodeStyle: the type is looked at before the biomarker match
NodeStyle_TypeFirst(d, bios) ==
    IF Get(d, "type", "None") = "gene"
    THEN [color |-> "#4CAF50", size |-> 18]
    ELSE IF Get(d, "type", "None") = "compound"
    THEN [color |-> "#2196F3", size |-> 15]
    ELSE IF \E i \in DOMAIN bios : Contains(Lower(Get(d, "label", <<>>)), Lower(bios[i]))
    THEN [color |-> "#FF5252", size |-> 25]
    ELSE [color |-> "#FFC107", size |-> 12]

\* lines 89-100: the colour and size of one node
NodeStyle(d, bios) ==
    IF \E i \in DOMAIN bios : Contains(Lower(Get(d, "label", <<>>)), Lower(bios[i]))
    THEN [color |-> "#FF5252", size |-> 25]
    ELSE IF Get(d, "type", "None") = "gene"
    THEN [color |-> "#4CAF50", size |-> 18]
    ELSE IF Get(d, "type", "None") = "compound"
    THEN [color |-> "#2196F3", size |-> 15]
    ELSE [color |-> "#FFC107", size |-> 12]

\* lines 83-100: one turn of the loop over net.nodes
StyledNode(node, g, bios) ==
    LET d == g.nodes[node.id]
        style == NodeStyle(d, bios)
    IN  [id    |-> node.id,
         label |-> Get(d, "label", <<"U","n","k","n","o","w","n">>),
         title |-> <<Get(d, "label", <<"U","n","k","n","o","w","n">>), Get(d, "type", "N/A")>>,
         color |-> style.color,
         size  |-> style.size]

(***************************************************************************)
(* The biomarker information panel (lines 116-127).                        *)
(***************************************************************************)
DEFINITION_MARK == <<"D","E","F","I","N","I","T","I","O","N">>
PATHWAY_MARK == <<"P","A","T","H","W","A","Y">>

\* mutant of ExtractDescription: the text is cut at the last PATHWAY marker
ExtractDescription_LastPathway(data) ==
    LET rest  == Split(data, DEFINITION_MARK)[2]
        parts == Split(rest, PATHWAY_MARK)
    IN  Strip(IF Len(parts) = 1 THEN rest
              ELSE SubSeq(rest, 1, Len(rest) - Len(parts[Len(parts)]) - Len(PATHWAY_MARK)))

\* line 121
ExtractDescription(data) ==
    Strip(Split(Split(data, DEFINITION_MARK)[2], PATHWAY_MARK)[1])

Markdown(kind, text) == [kind |-> kind, text |-> text]

\* lines 120-122, given the text the request returned
DescriptionLines(data) ==
    IF Contains(data, DEFINITION_MARK)
    THEN <<Markdown("description", ExtractDescription(data))>>
    ELSE <<>>

\* lines 119-125: what the expander shows when the request returned data
ExpanderBody(bio, data) == DescriptionLines(data) \o <<Markdown("link", bio)>>

\* mutant of OnLookupError: the exception is not caught
OnLookupError_Uncaught(bio) ==
    [next |-> "crashed", body |-> <<Markdown("unavailable", bio)>>]

\* lines 126-127: the request raised
OnLookupError(bio) ==
    [next |-> "info", body |-> <<Markdown("unavailable", bio)>>]

\* mutant of OnParseError: st.stop() is missing
OnParseError_Continue == "graph"

\* lines 34-36: st.error, then st.stop()
OnParseError == "stopped"

(***************************************************************************)
(* Inputs.                                                                 *)
(***************************************************************************)
RECURSIVE Flatten(_)
Flatten(ps) == IF ps = <<>> THEN <<>> ELSE Head(ps) \o Flatten(Tail(ps))

\* the pieces a gene record text is made of
Pieces == {DEFINITION_MARK, PATHWAY_MARK, <<" ","S","o","m","e"," ","t","e","x","t"," ">>}

\* what REST.kegg_get("hsa:<bio>").read() may return
RecordTexts ==
    {Flatten(ps) : ps \in UNION {[1..n -> Pieces] : n \in 0..MaxPieces}}

\* what lines 120-122 show over all these texts
ShownDescriptions == {DescriptionLines(d) : d \in RecordTexts}

\* the nodes a pathway graph of SpecFilter is made of
SampleNodes ==
    << [label |-> <<"B","A","C","E","1","_","H","U","M","A","N">>, name |-> <<"h","s","a",":","2","3","6","2","1">>, type |-> "gene"],
       [label |-> <<"a","p","p">>, name |-> <<"c","p","d",":","C","1">>, type |-> "compound"],
       [label |-> <<"A","b","e","t","a">>, name |-> <<"h","s","a",":","3","5","1"," ","A","P","P">>, type |-> "gene"],
       [label |-> <<"P","s","e","n","1">>, name |-> <<"k","o",":","K","0","4","5","0","5">>, type |-> "ortholog"] >>

\* the graphs handed to the filter in SpecFilter
Graphs ==
    LET nodesets == {ns \in SUBSET DOMAIN SampleNodes : Cardinality(ns) <= MaxNodes}
    IN  UNION {{[made |-> TRUE, nodes |-> [n \in ns |-> SampleNodes[n]], edges |-> es] :
                  es \in {x \in SUBSET (ns \X ns) : Cardinality(x) <= MaxEdges}} :
               ns \in nodesets}

\* the outcome of REST.kegg_get("hsa:<bio>").read(): a text, or an exception
Returned(text) == [raised |-> FALSE, text |-> text]
Raised == [raised |-> TRUE, text |-> <<>>]
NoRecord == [raised |-> FALSE, text |-> <<>>]

(***************************************************************************)
(* The render pass.                                                        *)
(***************************************************************************)
\* the variables a run of the script starts with: nothing is assigned yet
FreshPass ==
    /\ kgml_data = NoDocument
    /\ pathway = NoPathway
    /\ G = NoGraph
    /\ sub_nodes = {}
    /\ subgraph = NoGraph
    /\ subgraphIsG = FALSE
    /\ net = NoNet
    /\ notices = <<>>
    /\ htmlWrites = 0
    /\ displayed = NoNet
    /\ idx = 0
    /\ panel = <<>>
    /\ lookups = 0
    /\ fetched = "none"
    /\ parseFailed = FALSE

Init ==
    /\ pc = "start"
    /\ selected = <<>>
    /\ \/ cacheExists = FALSE /\ cacheContent = NoDocument
       \/ cacheExists = TRUE /\ cacheContent \in Documents
    /\ htmlFile = NoNet
    /\ kegg_record = NoRecord
    /\ existedAtStart = cacheExists
    /\ firstFetched = NoDocument
    /\ FreshPass

\* lines 17-21: the user's selection
Select ==
    /\ pc = "start"
    /\ selected' \in Selections
    /\ existedAtStart' = cacheExists
    /\ pc' = "load"
    /\ UNCHANGED <<cacheExists, cacheContent, kgml_data, pathway, G, sub_nodes,
                   subgraph, subgraphIsG, net, notices, htmlFile, htmlWrites,
                   displayed, idx, panel, lookups, kegg_record, fetched,
                   parseFailed, firstFetched>>

\* lines 26-30: fetch the pathway document when the cache file is absent
LoadOrFetch ==
    /\ pc = "load"
    /\ \/ /\ ~NeedsFetch(cacheExists)
          /\ pc' = "parse"
          /\ UNCHANGED <<cacheExists, cacheContent, kgml_data, fetched, firstFetched>>
       \/ /\ NeedsFetch(cacheExists)
          /\ \E doc \in Documents :
                /\ kgml_data' = doc
                /\ cacheExists' = TRUE
                /\ cacheContent' = doc
                /\ firstFetched' = IF firstFetched = NoDocument THEN doc ELSE firstFetched
          /\ fetched' = "ok"
          /\ pc' = "parse"
       \/ /\ NeedsFetch(cacheExists)
          \* REST.kegg_get raises: nothing catches it, the script ends
          /\ fetched' = "failed"
          /\ pc' = "crashed"
          /\ UNCHANGED <<cacheExists, cacheContent, kgml_data, firstFetched>>
    /\ UNCHANGED <<selected, pathway, G, sub_nodes, subgraph, subgraphIsG, net,
                   notices, htmlFile, htmlWrites, displayed, idx, panel, lookups,
                   kegg_record, existedAtStart, parseFailed>>

\* lines 32-36: the guarded parse
Parse ==
    /\ pc = "parse"
    /\ \/ /\ Parses(cacheContent)
          /\ pathway' = KGMLRead(cacheContent)
          /\ pc' = "graph"
          /\ UNCHANGED <<notices, parseFailed>>
       \/ /\ ~Parses(cacheContent)
          /\ notices' = Append(notices, Notice("error", "parse", 0))
          /\ parseFailed' = TRUE
          /\ pc' = OnParseError
          /\ UNCHANGED pathway
    /\ UNCHANGED <<selected, cacheExists, cacheContent, kgml_data, G, sub_nodes,
                   subgraph, subgraphIsG, net, htmlFile, htmlWrites, displayed,
                   idx, panel, lookups, kegg_record, existedAtStart, fetched,
                   firstFetched>>

\* line 38: the graph is created; no line adds a node or an edge to it
NewGraph ==
    /\ pc = "graph"
    /\ G' = DiGraph
    /\ pc' = "filter1"
    /\ UNCHANGED <<selected, cacheExists, cacheContent, kgml_data, pathway,
                   sub_nodes, subgraph, subgraphIsG, net, notices, htmlFile,
                   htmlWrites, displayed, idx, panel, lookups, kegg_record,
                   existedAtStart, fetched, parseFailed, firstFetched>>

\* lines 42-52: the first filtering block
FilterFirst ==
    /\ pc = "filter1"
    /\ LET matched == {n \in DOMAIN G.nodes : MatchesSearchText(G.nodes[n], selected)}
       IN  /\ sub_nodes' = matched
           /\ IF matched = {}
              THEN /\ notices' = Append(notices, Notice("warning", "full pathway (KGML)", 0))
                   /\ subgraph' = G
                   /\ subgraphIsG' = TRUE
              ELSE /\ subgraph' = InducedSubgraph(G, matched)
                   /\ subgraphIsG' = FALSE
                   /\ notices' = Append(notices, Notice("success", "found", Cardinality(matched)))
    /\ pc' = "filter2"
    /\ UNCHANGED <<selected, cacheExists, cacheContent, kgml_data, pathway, G,
                   net, htmlFile, htmlWrites, displayed, idx, panel, lookups,
                   kegg_record, existedAtStart, fetched, parseFailed, firstFetched>>

\* lines 61-71: the second filtering block
FilterSecond ==
    /\ pc = "filter2"
    /\ LET matched == {n \in DOMAIN G.nodes :
                          matches_biomarker(Get(G.nodes[n], "label", <<>>),
                                            Get(G.nodes[n], "name", <<>>), selected)}
       IN  /\ sub_nodes' = matched
           /\ IF matched = {}
              THEN /\ notices' = Append(notices, Notice("warning", "full pathway", 0))
                   /\ subgraph' = G
                   /\ subgraphIsG' = TRUE
              ELSE /\ subgraph' = InducedSubgraph(G, matched)
                   /\ subgraphIsG' = FALSE
                   /\ notices' = Append(notices, Notice("success", "found", Cardinality(matched)))
    /\ pc' = "network"
    /\ UNCHANGED <<selected, cacheExists, cacheContent, kgml_data, pathway, G,
                   net, htmlFile, htmlWrites, displayed, idx, panel, lookups,
                   kegg_record, existedAtStart, fetched, parseFailed, firstFetched>>

\* lines 75-79: the PyVis network of the filtered graph
BuildNetwork ==
    /\ pc = "network"
    /\ net' = FromNx(subgraph)
    /\ pc' = "style"
    /\ UNCHANGED <<selected, cacheExists, cacheContent, kgml_data, pathway, G,
                   sub_nodes, subgraph, subgraphIsG, notices, htmlFile,
                   htmlWrites, displayed, idx, panel, lookups, kegg_record,
                   existedAtStart, fetched, parseFailed, firstFetched>>

\* lines 82-100: colour, size, label and tooltip of every node
StyleNodes ==
    /\ pc = "style"
    /\ net' = [net EXCEPT !.nodes =
                  [n \in DOMAIN net.nodes |-> StyledNode(net.nodes[n], subgraph, selected)]]
    /\ pc' = "save"
    /\ UNCHANGED <<selected, cacheExists, cacheContent, kgml_data, pathway, G,
                   sub_nodes, subgraph, subgraphIsG, notices, htmlFile,
                   htmlWrites, displayed, idx, panel, lookups, kegg_record,
                   existedAtStart, fetched, parseFailed, firstFetched>>

\* lines 103-114: write pathway_network.html, read it back and display it
SaveAndDisplay ==
    /\ pc = "save"
    /\ htmlFile' = net
    /\ htmlWrites' = htmlWrites + 1
    /\ displayed' = net
    /\ idx' = 1
    /\ pc' = "info"
    /\ UNCHANGED <<selected, cacheExists, cacheContent, kgml_data, pathway, G,
                   sub_nodes, subgraph, subgraphIsG, net, notices, panel,
                   lookups, kegg_record, existedAtStart, fetched, parseFailed,
                   firstFetched>>

\* lines 116-127: one turn of the loop over the selected biomarkers
InfoStep ==
    /\ pc = "info"
    /\ idx <= Len(selected)
    /\ lookups' = lookups + 1
    /\ LET bio == selected[idx]
       IN  \/ \* the request returned a record text
              /\ \E lines \in ShownDescriptions :
                    panel' = Append(panel, [bio  |-> bio,
                                            body |-> lines \o <<Markdown("link", bio)>>])
              /\ idx' = idx + 1
              /\ pc' = "info"
           \/ \* the request raised
              /\ panel' = Append(panel, [bio |-> bio, body |-> OnLookupError(bio).body])
              /\ idx' = idx + 1
              /\ pc' = OnLookupError(bio).next
    /\ UNCHANGED <<selected, cacheExists, cacheContent, kgml_data, pathway, G,
                   sub_nodes, subgraph, subgraphIsG, net, notices, htmlFile,
                   htmlWrites, displayed, kegg_record, existedAtStart, fetched,
                   parseFailed, firstFetched>>

\* line 130: the loop is over, the footer ends the pass
Footer ==
    /\ pc = "info"
    /\ idx > Len(selected)
    /\ pc' = "done"
    /\ UNCHANGED <<selected, cacheExists, cacheContent, kgml_data, pathway, G,
                   sub_nodes, subgraph, subgraphIsG, net, notices, htmlFile,
                   htmlWrites, displayed, idx, panel, lookups, kegg_record,
                   existedAtStart, fetched, parseFailed, firstFetched>>

\* the user changes the selection: the script runs again from the top
Rerun ==
    /\ pc \in {"done", "stopped", "crashed"}
    /\ pc' = "start"
    /\ kgml_data' = NoDocument
    /\ pathway' = NoPathway
    /\ G' = NoGraph
    /\ sub_nodes' = {}
    /\ subgraph' = NoGraph
    /\ subgraphIsG' = FALSE
    /\ net' = NoNet
    /\ notices' = <<>>
    /\ htmlWrites' = 0
    /\ displayed' = NoNet
    /\ idx' = 0
    /\ panel' = <<>>
    /\ lookups' = 0
    /\ fetched' = "none"
    /\ parseFailed' = FALSE
    /\ UNCHANGED <<selected, cacheExists, cacheContent, htmlFile, kegg_record,
                   existedAtStart, firstFetched>>

Next ==
    \/ Select
    \/ LoadOrFetch
    \/ Parse
    \/ NewGraph
    \/ FilterFirst
    \/ FilterSecond
    \/ BuildNetwork
    \/ StyleNodes
    \/ SaveAndDisplay
    \/ InfoStep
    \/ Footer
    \/ Rerun

Spec == Init /\ [][Next]_vars

(***************************************************************************)
(* SpecFilter: lines 42-100 on any graph of Graphs.  The script reaches    *)
(* line 42 with a graph G and a selection; the four actions are those of   *)
(* the render pass.                                                        *)
(***************************************************************************)
InitFilter ==
    /\ pc = "filter1"
    /\ selected \in Selections
    /\ G \in Graphs
    /\ cacheExists = TRUE
    /\ cacheContent = DocExample
    /\ htmlFile = NoNet
    /\ kegg_record = NoRecord
    /\ existedAtStart = TRUE
    /\ firstFetched = NoDocument
    /\ kgml_data = NoDocument
    /\ pathway = KGMLRead(DocExample)
    /\ sub_nodes = {}
    /\ subgraph = NoGraph
    /\ subgraphIsG = FALSE
    /\ net = NoNet
    /\ notices = <<>>
    /\ htmlWrites = 0
    /\ displayed = NoNet
    /\ idx = 0
    /\ panel = <<>>
    /\ lookups = 0
    /\ fetched = "none"
    /\ parseFailed = FALSE

NextFilter ==
    \/ FilterFirst
    \/ FilterSecond
    \/ BuildNetwork
    \/ StyleNodes

SpecFilter == InitFilter /\ [][NextFilter]_vars

(***************************************************************************)
(* SpecInfo: the body of one expander (lines 117-127) on any record text   *)
(* of RecordTexts, and on a request that raises.                           *)
(***************************************************************************)
InitInfo ==
    /\ pc = "info"
    /\ \E i \in 1..NumOptions : selected = <<Options[i]>>
    /\ idx = 1
    /\ kegg_record \in {Returned(t) : t \in RecordTexts} \cup {Raised}
    /\ G = DiGraph
    /\ cacheExists = TRUE
    /\ cacheContent = DocExample
    /\ htmlFile = FromNx(DiGraph)
    /\ existedAtStart = TRUE
    /\ firstFetched = NoDocument
    /\ kgml_data = NoDocument
    /\ pathway = KGMLRead(DocExample)
    /\ sub_nodes = {}
    /\ subgraph = DiGraph
    /\ subgraphIsG = TRUE
    /\ net = FromNx(DiGraph)
    /\ notices = <<Notice("warning", "full pathway (KGML)", 0),
                   Notice("warning", "full pathway", 0)>>
    /\ htmlWrites = 1
    /\ displayed = FromNx(DiGraph)
    /\ panel = <<>>
    /\ lookups = 0
    /\ fetched = "none"
    /\ parseFailed = FALSE

\* lines 117-127 for the biomarker at idx, the request doing what kegg_record says
Describe ==
    /\ pc = "info"
    /\ idx <= Len(selected)
    /\ lookups' = lookups + 1
    /\ LET bio == selected[idx]
       IN  \/ /\ ~kegg_record.raised
              /\ panel' = Append(panel, [bio  |-> bio,
                                         body |-> ExpanderBody(bio, kegg_record.text)])
              /\ idx' = idx + 1
              /\ pc' = "info"
           \/ /\ kegg_record.raised
              /\ panel' = Append(panel, [bio |-> bio, body |-> OnLookupError(bio).body])
              /\ idx' = idx + 1
              /\ pc' = OnLookupError(bio).next
    /\ UNCHANGED <<selected, cacheExists, cacheContent, kgml_data, pathway, G,
                   sub_nodes, subgraph, subgraphIsG, net, notices, htmlFile,
                   htmlWrites, displayed, kegg_record, existedAtStart, fetched,
                   parseFailed, firstFetched>>

NextInfo ==
    \/ Describe
    \/ Footer

SpecInfo == InitInfo /\ [][NextInfo]_vars

(***************************************************************************)
(* Properties.                                                             *)
(***************************************************************************)
AfterGraph == {"filter1", "filter2", "network", "style", "save", "info", "done"}
AfterFilter == {"network", "style", "save"}

\* C1 (fails on the code): once the graph is handed to the filter it has one
\* node per entry of type gene, enzyme or compound, keyed by the entry id and
\* carrying name, label and type, and one edge per relation between two
\* entries; the document with entries g1 (gene APP), c1 (compound X) and the
\* relation g1 -> c1 gives 2 nodes and 1 edge.
C1_GraphBuiltFromPathway ==
    pc \in AfterGraph =>
        LET kept == {e \in pathway.entries : e.type \in {"gene", "enzyme", "compound"}}
            ids  == {e.id : e \in pathway.entries}
        IN  /\ DOMAIN G.nodes = {e.id : e \in kept}
            /\ \A e \in kept :
                  G.nodes[e.id] = [name  |-> e.name,
                                   label |-> IF e.graphics # <<>> THEN e.graphics ELSE e.name,
                                   type  |-> e.type]
            /\ G.edges = {<<r.entry1, r.entry2>> :
                            r \in {x \in pathway.relations :
                                     x.entry1 \in ids /\ x.entry2 \in ids}}
            /\ (pathway = KGMLRead(DocExample) =>
                    Cardinality(DOMAIN G.nodes) = 2 /\ Cardinality(G.edges) = 1)

\* C2: when at least one node matches, the rendered graph has exactly the
\* matched nodes, with their attributes, and exactly the edges of G whose two
\* endpoints are matched nodes.
C2_RenderedIsInducedSubgraph ==
    (pc \in AfterFilter /\ sub_nodes # {}) =>
        /\ sub_nodes \subseteq DOMAIN G.nodes
        /\ DOMAIN subgraph.nodes = sub_nodes
        /\ \A n \in sub_nodes : subgraph.nodes[n] = G.nodes[n]
        /\ subgraph.edges \subseteq G.edges
        /\ \A e \in G.edges :
              e \in subgraph.edges <=> (e[1] \in sub_nodes /\ e[2] \in sub_nodes)
        /\ (net.made => DOMAIN net.nodes = sub_nodes /\ net.edges = subgraph.edges)

\* C2 witness: a rendered graph that dropped a node of G and an edge of G and
\* kept another edge.
C2_Witness ==
    /\ pc = "save"
    /\ sub_nodes # {}
    /\ sub_nodes # DOMAIN G.nodes
    /\ net.edges # {}
    /\ net.edges # G.edges

C4_MatchIsCaseInsensitiveSubstring ==
    LET occurs(b, text) ==
            \E o \in 0..(Len(text) - Len(b)) :
                \A k \in 1..Len(b) : LowerChar(text[o + k]) = LowerChar(b[k])
        chosen(text) == \E i \in DOMAIN selected : occurs(selected[i], text)
    IN  /\ pc \in AfterFilter =>
              \A n \in DOMAIN G.nodes :
                  /\ n \in sub_nodes <=>
                        chosen(G.nodes[n].label \o <<" ">> \o G.nodes[n].name)
                  /\ (~chosen(G.nodes[n].label) /\ ~chosen(G.nodes[n].name))
                        => n \notin sub_nodes
        /\ matches_biomarker(<<"B","A","C","E","1","_","H","U","M","A","N">>, <<"h","s","a",":","2","3","6","2","1">>, << <<"b","a","c","e","1">> >>)

\* C4 witness: a node whose lower-case label matches an upper-case biomarker,
\* next to a node that does not match.
C4_Witness ==
    /\ pc = "save"
    /\ \E n \in sub_nodes :
          /\ G.nodes[n].label = <<"a","p","p">>
          /\ \E i \in DOMAIN selected : selected[i] = <<"A","P","P">>
    /\ sub_nodes # DOMAIN G.nodes

\* C5: a rendered node whose label holds a selected biomarker, letter case
\* aside, is red with size 25 whatever its type; any other node is green 18
\* for a gene, blue 15 for a compound, amber 12 otherwise.
C5_MatchBeatsType ==
    LET occurs(b, text) ==
            \E o \in 0..(Len(text) - Len(b)) :
                \A k \in 1..Len(b) : LowerChar(text[o + k]) = LowerChar(b[k])
    IN  pc = "save" =>
            \A n \in DOMAIN net.nodes :
                LET d    == subgraph.nodes[n]
                    look == <<net.nodes[n].color, net.nodes[n].size>>
                IN  IF \E i \in DOMAIN selected : occurs(selected[i], d.label)
                    THEN look = <<"#FF5252", 25>>
                    ELSE IF d.type = "gene" THEN look = <<"#4CAF50", 18>>
                    ELSE IF d.type = "compound" THEN look = <<"#2196F3", 15>>
                    ELSE look = <<"#FFC107", 12>>

\* C5 witness: a compound drawn red because its label matches, next to a gene
\* drawn green because only its name matches.
C5_Witness ==
    /\ pc = "save"
    /\ \E n \in DOMAIN net.nodes :
          subgraph.nodes[n].type = "compound" /\ net.nodes[n].color = "#FF5252"
    /\ \E n \in DOMAIN net.nodes :
          subgraph.nodes[n].type = "gene" /\ net.nodes[n].color = "#4CAF50"

C7_EveryBiomarkerProcessed ==
    /\ pc \in {"info", "done"} =>
          /\ idx >= 1
          /\ idx <= Len(selected) + 1
          /\ Len(panel) = idx - 1
          /\ lookups = idx - 1
          /\ \A i \in DOMAIN panel :
                /\ panel[i].bio = selected[i]
                /\ panel[i].body[Len(panel[i].body)].kind \in {"link", "unavailable"}
          /\ htmlWrites = 1
          /\ net.made
          /\ displayed = net
    /\ pc = "done" => Len(panel) = Len(selected)
    /\ pc \in {"crashed", "stopped"} => lookups = 0

\* C7 witness: the first of two requests failed and the second showed its
\* link.
C7_Witness ==
    /\ pc = "done"
    /\ Len(selected) = 2
    /\ panel[1].body[1].kind = "unavailable"
    /\ panel[2].body[Len(panel[2].body)].kind = "link"

\* C8 (fails on the code): a failed fetch of the pathway document is turned
\* into an error message and a halted pass, never a crash, and leaves no
\* cache file.
C8_FetchFailureReported ==
    fetched = "failed" =>
        /\ pc # "crashed"
        /\ \E i \in DOMAIN notices : notices[i].kind = "error"
        /\ ~cacheExists

\* C9: a pass fetches only when the cache file was absent when it began, and
\* writes the fetched text verbatim before parsing; once the file exists no
\* pass fetches or rewrites it, whatever it holds, and what is parsed is the
\* text the first successful fetch wrote.
C9_FetchIfAbsent ==
    /\ [](fetched # "none" => ~existedAtStart)
    /\ [](fetched = "ok" => cacheExists /\ cacheContent = kgml_data)
    /\ [][cacheExists =>
            /\ cacheExists'
            /\ cacheContent' = cacheContent
            /\ fetched' \in {fetched, "none"}]_vars
    /\ [](firstFetched # NoDocument =>
            /\ cacheExists
            /\ cacheContent = firstFetched
            /\ pathway.parsed => pathway = KGMLRead(firstFetched))

\* C9 witness: a pass that found the file written by an earlier pass and
\* parsed it without fetching.
C9_Witness ==
    /\ pc = "graph"
    /\ existedAtStart
    /\ fetched = "none"
    /\ firstFetched # NoDocument
    /\ pathway = KGMLRead(firstFetched)

\* C10: when the parse fails the pass reports the error and stops: no graph
\* is made, filtered or rendered, no HTML is written or displayed and no
\* biomarker is looked up; no pass goes past the parse on a document that
\* does not parse.
C10_ParseFailureHalts ==
    /\ parseFailed =>
          /\ pc = "stopped"
          /\ notices = <<Notice("error", "parse", 0)>>
          /\ ~pathway.parsed
          /\ G = NoGraph
          /\ subgraph = NoGraph
          /\ net = NoNet
          /\ htmlWrites = 0
          /\ displayed = NoNet
          /\ panel = <<>>
          /\ lookups = 0
    /\ pc \in AfterGraph \cup {"graph"} => Parses(cacheContent)

\* C10 witness: a pass stopped on a cached document that does not parse.
C10_Witness ==
    /\ pc = "stopped"
    /\ parseFailed
    /\ cacheExists
    /\ ~Parses(cacheContent)

====
